---- MODULE Spec2Model ----
(* Model of src/src/math_utils.rs: the PrimeFactors value type (compute,      *)
(* remove_factors, partition_factors) and the modular-arithmetic primitives.  *)
(* Every function of the source is an operator computed the way the code      *)
(* computes it; the actions apply them to inputs drawn from bounded sets.     *)
(* usize/u64 values stay far below 2^24 within the bounds, so no product      *)
(* overflows and `(n as f32).sqrt()` is exact; u32 counters are carried as    *)
(* their residue mod 2^32 in two's-complement form (2^32 - 1 is written -1).  *)
EXTENDS Integers, Sequences, FiniteSets, TLC

VARIABLES pc, input, self, operand, operandFresh, factor, halves, prim, ee

vars == <<pc, input, self, operand, operandFresh, factor, halves, prim, ee>>

----------------------------------------------------------------------------
(* Bounds *)
MaxN == 130
MaxCount == 3
MaxValue == 7
MaxPrime == 32
MaxA == 14
MaxMod == 13
MaxBase == 6
MaxExponent == 9
MaxEuclid == 16
MaxDistinct == 130

----------------------------------------------------------------------------
(* Arithmetic helpers *)

\* b.pow(e) on usize
RECURSIVE pow(_, _)
pow(b, e) == IF e = 0 THEN 1 ELSE b * pow(b, e - 1)

\* (n as f32).sqrt() as usize
f32_sqrt(n) == CHOOSE r \in 0..n : r * r <= n /\ (r + 1) * (r + 1) > n

\* usize::trailing_zeros (64 for zero)
RECURSIVE trailing_zeros(_)
trailing_zeros(n) == IF n = 0 THEN 64
                     ELSE IF n % 2 = 0 THEN 1 + trailing_zeros(n \div 2) ELSE 0

NoFactors == [other_factors |-> <<>>, n |-> 0, power_two |-> 0, power_three |-> 0,
              total_factor_count |-> 0, distinct_factor_count |-> 0]

NoFactor == [value |-> 0, count |-> 0]

----------------------------------------------------------------------------
(* Modular arithmetic primitives *)

\* lines 25-39: exponentiation by squaring
RECURSIVE modular_exponent_loop(_, _, _, _)
modular_exponent_loop(base, exponent, modulo, result) ==
    IF exponent > 0
    THEN modular_exponent_loop((base * base) % modulo, exponent \div 2, modulo,
                               IF exponent % 2 = 1 THEN (result * base) % modulo
                               ELSE result)
    ELSE result

modular_exponent(base, exponent, modulo) ==
    modular_exponent_loop(base, exponent, modulo, 1)

\* lines 106-108, 118-120: while n % d == 0 { n /= d }
RECURSIVE divide_out(_, _)
divide_out(n, d) == IF n % d = 0 THEN divide_out(n \div d, d) ELSE n

\* lines 114-128: odd divisors below the shrinking limit
RECURSIVE distinct_loop(_, _, _, _)
distinct_loop(n, divisor, limit, result) ==
    IF divisor < limit
    THEN IF n % divisor = 0
         THEN LET m == divide_out(n, divisor)
              IN distinct_loop(m, divisor + 2, f32_sqrt(m) + 1, Append(result, divisor))
         ELSE distinct_loop(n, divisor + 2, limit, result)
    ELSE IF n > 1 THEN Append(result, n) ELSE result

\* distinct_prime_factors that records 2 without dividing it out
distinct_prime_factors_keep_twos(n0) ==
    LET even == n0 % 2 = 0
        result == IF even THEN <<2>> ELSE <<>>
    IN IF n0 > 1 THEN distinct_loop(n0, 3, f32_sqrt(n0) + 1, result) ELSE result

\* lines 101-136
distinct_prime_factors(n0) ==
    LET even == n0 % 2 = 0
        n == IF even THEN divide_out(n0, 2) ELSE n0
        result == IF even THEN <<2>> ELSE <<>>
    IN IF n > 1 THEN distinct_loop(n, 3, f32_sqrt(n) + 1, result) ELSE result

\* lines 12-16: is the candidate rejected by one of the test exponents
rejected(potential_root, test_exponents, prime) ==
    \E i \in 1..Len(test_exponents) :
        modular_exponent(potential_root, test_exponents[i], prime) = 1

\* lines 10-21: for potential_root in 2..prime
RECURSIVE root_loop(_, _, _)
root_loop(potential_root, test_exponents, prime) ==
    IF potential_root >= prime THEN [some |-> FALSE, val |-> 0]
    ELSE IF rejected(potential_root, test_exponents, prime)
         THEN root_loop(potential_root + 1, test_exponents, prime)
         ELSE [some |-> TRUE, val |-> potential_root]

\* lines 5-22
primitive_root(prime) ==
    LET factors == distinct_prime_factors(prime - 1)
        test_exponents == [i \in 1..Len(factors) |-> (prime - 1) \div factors[i]]
    IN root_loop(2, test_exponents, prime)

\* lines 51-67: the half extended-Euclidean recurrence on unsigned values
RECURSIVE inverse_loop(_, _, _, _, _)
inverse_loop(t, t_new, r, r_new, n) ==
    IF r_new > 0
    THEN LET quotient == r \div r_new
             r1 == r - quotient * r_new
             t_subtract == quotient * t_new
             t1 == IF t_subtract < t THEN t - t_subtract
                   ELSE n - ((t_subtract - t) % n)
         IN inverse_loop(t_new, t1, r_new, r1, n)
    ELSE t

\* lines 41-70
multiplicative_inverse(a, n) == inverse_loop(0, 1, n, a, n)

\* signed `/` truncates toward zero (the divisor is positive in the loop)
trunc_div(x, y) == IF x >= 0 THEN x \div y ELSE -((-x) \div y)

NoEuclid == [a |-> 0, b |-> 0, s |-> 0, s_old |-> 0, t |-> 0, t_old |-> 0,
             r |-> 0, r_old |-> 0]

\* lines 75-82: the state before the loop
euclid_start(a, b) == [a |-> a, b |-> b, s |-> 0, s_old |-> 1, t |-> 1, t_old |-> 0,
                       r |-> b, r_old |-> a]

\* an iteration that forgets the quotient when it updates t_old
euclid_step_plain_t(st) ==
    LET quotient == trunc_div(st.r_old, st.r)
    IN [st EXCEPT !.r_old = st.r, !.r = st.r_old - quotient * st.r,
                  !.s_old = st.s, !.s = st.s_old - quotient * st.s,
                  !.t_old = st.t, !.t = st.t_old - st.t]

\* lines 85-94: one iteration of `while r > 0`
euclid_step(st) ==
    LET quotient == trunc_div(st.r_old, st.r)
    IN [st EXCEPT !.r_old = st.r, !.r = st.r_old - quotient * st.r,
                  !.s_old = st.s, !.s = st.s_old - quotient * st.s,
                  !.t_old = st.t, !.t = st.t_old - quotient * st.t]

----------------------------------------------------------------------------
(* PrimeFactors::compute *)

\* compute_two that forgets `n >>= power_two`
compute_two_keep_n(n) ==
    LET p2 == trailing_zeros(n)
    IN [result |-> [NoFactors EXCEPT !.n = n, !.power_two = p2,
                                     !.total_factor_count = p2,
                                     !.distinct_factor_count = IF p2 > 0 THEN 1 ELSE 0],
        n |-> n]

\* lines 166-171: the power of two
compute_two(n) ==
    LET p2 == trailing_zeros(n)
    IN [result |-> [NoFactors EXCEPT !.n = n, !.power_two = p2,
                                     !.total_factor_count = p2,
                                     !.distinct_factor_count = IF p2 > 0 THEN 1 ELSE 0],
        n |-> n \div pow(2, p2)]

\* lines 174-177: while n % 3 == 0
RECURSIVE three_loop(_)
three_loop(st) ==
    IF st.n % 3 = 0
    THEN three_loop([result |-> [st.result EXCEPT !.power_three = @ + 1], n |-> st.n \div 3])
    ELSE st

\* compute_three that forgets to count three as a distinct factor
compute_three_no_distinct(st0) ==
    LET st == three_loop(st0)
    IN [st EXCEPT !.result.total_factor_count = @ + st.result.power_three]

\* lines 178-181
compute_three(st0) ==
    LET st == three_loop(st0)
    IN [st EXCEPT !.result.total_factor_count = @ + st.result.power_three,
                  !.result.distinct_factor_count =
                      IF st.result.power_three > 0 THEN @ + 1 ELSE @]

\* lines 190-194: count how many times divisor divides n
RECURSIVE count_loop(_, _, _)
count_loop(n, divisor, count) ==
    IF n % divisor = 0 THEN count_loop(n \div divisor, divisor, count + 1)
    ELSE [n |-> n, count |-> count]

\* lines 188-207: while divisor < limit
RECURSIVE divisor_loop(_, _, _)
divisor_loop(st, divisor, limit) ==
    IF divisor < limit
    THEN LET c == count_loop(st.n, divisor, 0)
         IN IF c.count > 0
            THEN divisor_loop(
                   [result |-> [st.result EXCEPT
                        !.other_factors = Append(@, [value |-> divisor, count |-> c.count]),
                        !.total_factor_count = @ + c.count,
                        !.distinct_factor_count = @ + 1],
                    n |-> c.n],
                   divisor + 2, f32_sqrt(c.n) + 1)
            ELSE divisor_loop(st, divisor + 2, limit)
    ELSE st

\* compute_other whose first divisor limit is sqrt(n) instead of sqrt(n) + 1
compute_other_low_limit(st0) ==
    IF st0.n > 1
    THEN LET st == divisor_loop(st0, 5, f32_sqrt(st0.n))
         IN IF st.n > 1
            THEN [st.result EXCEPT
                     !.other_factors = Append(@, [value |-> st.n, count |-> 1]),
                     !.total_factor_count = @ + 1,
                     !.distinct_factor_count = @ + 1]
            ELSE st.result
    ELSE st0.result

\* lines 184-215: the "other factors"
compute_other(st0) ==
    IF st0.n > 1
    THEN LET st == divisor_loop(st0, 5, f32_sqrt(st0.n) + 1)
         IN IF st.n > 1
            THEN [st.result EXCEPT
                     !.other_factors = Append(@, [value |-> st.n, count |-> 1]),
                     !.total_factor_count = @ + 1,
                     !.distinct_factor_count = @ + 1]
            ELSE st.result
    ELSE st0.result

compute(n) == compute_other(compute_three(compute_two(n)))

is_prime(f) == f.total_factor_count = 1
get_product(f) == f.n

----------------------------------------------------------------------------
(* PrimeFactors::remove_factors *)

\* unsigned x < y on u32 residues
u32_lt(x, y) == IF (x < 0) = (y < 0) THEN x < y ELSE y < 0

\* lines 254-260, 265-271, 276-283: `total_factor_count -= count`, the
\* conditional `distinct_factor_count -= 1`, and the final `n > 1` test.
\* A u32 subtraction that underflows panics when the build checks overflow
\* and wraps otherwise.
finish_remove(f, count, drop, checks) ==
    LET underflow == u32_lt(f.total_factor_count, count)
                     \/ (drop /\ f.distinct_factor_count = 0)
        g == [f EXCEPT !.total_factor_count = @ - count,
                       !.distinct_factor_count = IF drop THEN @ - 1 ELSE @]
    IN IF checks /\ underflow THEN [kind |-> "panic", value |-> NoFactors]
       ELSE IF g.n > 1 THEN [kind |-> "Some", value |-> g]
       ELSE [kind |-> "None", value |-> NoFactors]

\* remove_two with a wrapping subtraction instead of checked_sub().unwrap()
remove_two_unchecked(f, fac, checks) ==
    LET g == [f EXCEPT !.power_two = @ - fac.count,
                       !.n = @ \div pow(2, fac.count)]
    IN finish_remove(g, fac.count, g.power_two = 0, checks)

\* lines 251-261
remove_two(f, fac, checks) ==
    IF fac.count > f.power_two THEN [kind |-> "panic", value |-> NoFactors]
    ELSE LET g == [f EXCEPT !.power_two = @ - fac.count,
                            !.n = @ \div pow(2, fac.count)]
         IN finish_remove(g, fac.count, g.power_two = 0, checks)

\* lines 262-271
remove_three(f, fac, checks) ==
    IF fac.count > f.power_three THEN [kind |-> "panic", value |-> NoFactors]
    ELSE LET g == [f EXCEPT !.power_three = @ - fac.count,
                            !.n = @ \div pow(3, fac.count)]
         IN finish_remove(g, fac.count, g.power_two = 0, checks)

\* line 279: other_factors.retain(|item| item.value != value)
retain(others, value) == SelectSeq(others, LAMBDA item : item.value # value)

\* lines 272-284
remove_other(f, fac, checks) ==
    LET found == {i \in 1..Len(f.other_factors) : f.other_factors[i].value = fac.value}
    IN IF found = {} THEN [kind |-> "panic", value |-> NoFactors]
       ELSE LET i == CHOOSE j \in found : \A k \in found : j <= k
                item == f.other_factors[i]
            IN IF fac.count > item.count THEN [kind |-> "panic", value |-> NoFactors]
               ELSE LET left == item.count - fac.count
                        g == [f EXCEPT
                                !.other_factors =
                                    IF left = 0 THEN retain(@, fac.value)
                                    ELSE [@ EXCEPT ![i].count = left],
                                !.n = @ \div pow(fac.value, fac.count)]
                    IN finish_remove(g, fac.count, left = 0, checks)

\* lines 247-286
remove_factors(f, fac, checks) ==
    IF fac.count = 0 THEN [kind |-> "Some", value |-> f]
    ELSE IF fac.value = 2 THEN remove_two(f, fac, checks)
    ELSE IF fac.value = 3 THEN remove_three(f, fac, checks)
    ELSE remove_other(f, fac, checks)

----------------------------------------------------------------------------
(* PrimeFactors::partition_factors *)

\* line 294
is_perfect_square(f) ==
    /\ f.power_two % 2 = 0
    /\ f.power_three % 2 = 0
    /\ \A i \in 1..Len(f.other_factors) : f.other_factors[i].count % 2 = 0

\* lines 306-309: halve every other factor, accumulating the product
RECURSIVE halve_others(_, _, _)
halve_others(others, i, product) ==
    IF i > Len(others) THEN [others |-> others, product |-> product]
    ELSE LET c == others[i].count \div 2
         IN halve_others([others EXCEPT ![i].count = c], i + 1,
                         product * pow(others[i].value, c))

\* partition_square that forgets `total_factor_count /= 2`
partition_square_keep_total(f) ==
    LET p2 == f.power_two \div 2
        p3 == f.power_three \div 2
        h == halve_others(f.other_factors, 1, pow(2, p2) * pow(3, p3))
        g == [f EXCEPT !.power_two = p2, !.power_three = p3,
                       !.other_factors = h.others,
                       !.n = h.product]
    IN [kind |-> "ok", left |-> g, right |-> g]

\* lines 295-314
partition_square(f) ==
    LET p2 == f.power_two \div 2
        p3 == f.power_three \div 2
        h == halve_others(f.other_factors, 1, pow(2, p2) * pow(3, p3))
        g == [f EXCEPT !.power_two = p2, !.power_three = p3,
                       !.other_factors = h.others,
                       !.total_factor_count = @ \div 2,
                       !.n = h.product]
    IN [kind |-> "ok", left |-> g, right |-> g]

\* lines 317-351
partition_single(f) ==
    LET half0 == [other_factors |-> <<>>, n |-> f.n,
                  power_two |-> f.power_two \div 2,
                  power_three |-> f.power_three \div 2,
                  total_factor_count |-> f.total_factor_count \div 2,
                  distinct_factor_count |-> 1]
        self0 == [f EXCEPT !.power_two = @ - half0.power_two,
                           !.power_three = @ - half0.power_three,
                           !.total_factor_count = @ - half0.total_factor_count]
    IN IF Len(self0.other_factors) > 0
       THEN LET first == self0.other_factors[1]
                half_factor == [value |-> first.value, count |-> first.count \div 2]
                rest == first.count - half_factor.count
            IN IF ~(first.count > 1)
               THEN [kind |-> "panic", left |-> NoFactors, right |-> NoFactors]
               ELSE [kind |-> "ok",
                     left |-> [self0 EXCEPT !.other_factors[1].count = rest,
                                            !.n = pow(first.value, rest)],
                     right |-> [half0 EXCEPT !.other_factors = <<half_factor>>,
                                             !.n = pow(half_factor.value, half_factor.count)]]
       ELSE IF half0.power_two > 0
       THEN [kind |-> "ok",
             left |-> [self0 EXCEPT !.n = pow(2, self0.power_two)],
             right |-> [half0 EXCEPT !.n = pow(2, half0.power_two)]]
       ELSE IF half0.power_three > 0
       THEN [kind |-> "ok",
             left |-> [self0 EXCEPT !.n = pow(3, self0.power_three)],
             right |-> [half0 EXCEPT !.n = pow(3, half0.power_three)]]
       ELSE [kind |-> "ok", left |-> self0, right |-> half0]

\* lines 358-365: put each other factor in whichever cumulative half is smaller
RECURSIVE greedy_others(_, _, _)
greedy_others(others, i, p) ==
    IF i > Len(others) THEN p
    ELSE LET factor_product == pow(others[i].value, others[i].count)
         IN IF p.left <= p.right
            THEN greedy_others(others, i + 1, [p EXCEPT !.left = @ * factor_product])
            ELSE greedy_others(others, i + 1, [p EXCEPT !.right = @ * factor_product])

\* greedy_two that always gives the power of two to the left product
greedy_two_always_left(f, p) == [p EXCEPT !.left = @ * pow(2, f.power_two)]

\* lines 366-370
greedy_two(f, p) ==
    IF p.left <= p.right THEN [p EXCEPT !.left = @ * pow(2, f.power_two)]
    ELSE [p EXCEPT !.right = @ * pow(2, f.power_two)]

\* lines 371-375
greedy_three(f, p) ==
    IF f.power_three > 0 /\ p.left <= p.right
    THEN [p EXCEPT !.left = @ * pow(3, f.power_three)]
    ELSE [p EXCEPT !.right = @ * pow(3, f.power_three)]

\* lines 354-379
partition_greedy(f) ==
    LET p == greedy_three(f, greedy_two(f,
                 greedy_others(f.other_factors, 1, [left |-> 1, right |-> 1])))
    IN [kind |-> "ok", left |-> compute(p.left), right |-> compute(p.right)]

\* lines 289-381
partition_factors(f) ==
    IF is_prime(f) THEN [kind |-> "panic", left |-> NoFactors, right |-> NoFactors]
    ELSE IF is_perfect_square(f) THEN partition_square(f)
    ELSE IF f.distinct_factor_count = 1 THEN partition_single(f)
    ELSE partition_greedy(f)

----------------------------------------------------------------------------
Init ==
    /\ pc = "start"
    /\ input = 0
    /\ self = NoFactors
    /\ operand = NoFactors
    /\ operandFresh = FALSE
    /\ factor = NoFactor
    /\ halves = <<NoFactors, NoFactors>>
    /\ prim = [op |-> "none", a |-> 0, b |-> 0, c |-> 0, some |-> FALSE, val |-> 0,
               list |-> <<>>]
    /\ ee = NoEuclid

Compute ==
    /\ pc = "start"
    /\ \E n \in 1..MaxN :
          /\ input' = n
          /\ self' = compute(n)
    /\ pc' = "computed"
    /\ UNCHANGED <<operand, operandFresh, factor, halves, prim, ee>>

\* the values and counts a caller may name in a PrimeFactor
FactorChoices(f) ==
    {[value |-> v, count |-> c] :
        v \in (2..MaxValue) \cup {f.other_factors[i].value : i \in 1..Len(f.other_factors)},
        c \in 0..MaxCount}

RemoveFactors ==
    /\ pc \in {"computed", "removed", "taken"}
    /\ \E fac \in FactorChoices(self), checks \in BOOLEAN :
          LET out == remove_factors(self, fac, checks)
          IN /\ factor' = fac
             /\ self' = out.value
             /\ pc' = IF out.kind = "Some" THEN "removed"
                      ELSE IF out.kind = "None" THEN "none" ELSE "remove_panic"
    /\ operand' = self
    /\ operandFresh' = (pc = "computed")
    /\ UNCHANGED <<input, halves, prim, ee>>

PartitionFactors ==
    /\ pc \in {"computed", "removed", "taken"}
    /\ LET out == partition_factors(self)
       IN /\ halves' = <<out.left, out.right>>
          /\ pc' = IF out.kind = "ok" THEN "partitioned" ELSE "partition_panic"
    /\ self' = NoFactors
    /\ factor' = NoFactor
    /\ operand' = self
    /\ operandFresh' = (pc = "computed")
    /\ UNCHANGED <<input, prim, ee>>

PrimitiveRoot ==
    /\ pc = "start"
    /\ \E p \in 2..MaxPrime :
          LET out == primitive_root(p)
          IN prim' = [op |-> "primitive_root", a |-> p, b |-> 0, c |-> 0,
                      some |-> out.some, val |-> out.val, list |-> <<>>]
    /\ pc' = "returned"
    /\ UNCHANGED <<input, self, operand, operandFresh, factor, halves, ee>>

MultiplicativeInverse ==
    /\ pc = "start"
    /\ \E a \in 0..MaxA, n \in 1..MaxMod :
          prim' = [op |-> "multiplicative_inverse", a |-> a, b |-> n, c |-> 0,
                   some |-> TRUE, val |-> multiplicative_inverse(a, n), list |-> <<>>]
    /\ pc' = "returned"
    /\ UNCHANGED <<input, self, operand, operandFresh, factor, halves, ee>>

\* the caller keeps one half of the pair and goes on with it
TakeHalf ==
    /\ pc = "partitioned"
    /\ \E i \in 1..2 : self' = halves[i]
    /\ pc' = "taken"
    /\ UNCHANGED <<input, operand, operandFresh, factor, halves, prim, ee>>

ModularExponent ==
    /\ pc = "start"
    /\ \E base \in 0..MaxBase, exponent \in 0..MaxExponent, modulo \in 1..MaxMod :
          prim' = [op |-> "modular_exponent", a |-> base, b |-> exponent, c |-> modulo,
                   some |-> TRUE, val |-> modular_exponent(base, exponent, modulo),
                   list |-> <<>>]
    /\ pc' = "returned"
    /\ UNCHANGED <<input, self, operand, operandFresh, factor, halves, ee>>

DistinctPrimeFactors ==
    /\ pc = "start"
    /\ \E n \in 1..MaxDistinct :
          prim' = [op |-> "distinct_prime_factors", a |-> n, b |-> 0, c |-> 0,
                   some |-> TRUE, val |-> 0, list |-> distinct_prime_factors(n)]
    /\ pc' = "returned"
    /\ UNCHANGED <<input, self, operand, operandFresh, factor, halves, ee>>

\* lines 72-82: the call and the initialisation
EuclidCall ==
    /\ pc = "start"
    /\ \E a \in (-MaxEuclid)..MaxEuclid, b \in (-MaxEuclid)..MaxEuclid :
          ee' = euclid_start(a, b)
    /\ pc' = "euclid"
    /\ UNCHANGED <<input, self, operand, operandFresh, factor, halves, prim>>

\* lines 84-95: one loop iteration
EuclidStep ==
    /\ pc = "euclid"
    /\ ee.r > 0
    /\ ee' = euclid_step(ee)
    /\ UNCHANGED <<pc, input, self, operand, operandFresh, factor, halves, prim>>

\* line 97: the loop has ended
EuclidReturn ==
    /\ pc = "euclid"
    /\ ~(ee.r > 0)
    /\ prim' = [op |-> "extended_euclidean_algorithm", a |-> ee.a, b |-> ee.b, c |-> 0,
                some |-> TRUE, val |-> ee.r_old, list |-> <<ee.r_old, ee.s_old, ee.t_old>>]
    /\ pc' = "returned"
    /\ UNCHANGED <<input, self, operand, operandFresh, factor, halves, ee>>

Next ==
    \/ Compute
    \/ RemoveFactors
    \/ PartitionFactors
    \/ TakeHalf
    \/ PrimitiveRoot
    \/ MultiplicativeInverse
    \/ ModularExponent
    \/ DistinctPrimeFactors
    \/ EuclidCall
    \/ EuclidStep
    \/ EuclidReturn

Spec == Init /\ [][Next]_vars

----------------------------------------------------------------------------
(* Reference arithmetic the properties are stated against *)

IsPrimeNumber(n) == n >= 2 /\ \A d \in 2..(n - 1) : n % d # 0

IsComposite(n) == n >= 4 /\ ~IsPrimeNumber(n)

PrimeDivisors(n) == {d \in 2..n : n % d = 0 /\ IsPrimeNumber(d)}

\* the exponent of the prime p in n: the number of divisors of n that are
\* powers of p (p, p^2, ..., p^k)
Valuation(p, n) == Cardinality({q \in 2..n : n % q = 0 /\ PrimeDivisors(q) = {p}})

Abs(x) == IF x < 0 THEN -x ELSE x

Gcd(a, b) == CHOOSE g \in 0..(a + b) :
                /\ (g = 0) = (a = 0 /\ b = 0)
                /\ g > 0 => /\ a % g = 0 /\ b % g = 0
                            /\ \A h \in 1..(a + b) : (a % h = 0 /\ b % h = 0) => h <= g

\* assert_internally_consistent, lines 494-513: the values rebuilt from the fields
RECURSIVE others_product(_, _)
others_product(others, i) ==
    IF i > Len(others) THEN 1
    ELSE pow(others[i].value, others[i].count) * others_product(others, i + 1)

RECURSIVE others_total(_, _)
others_total(others, i) ==
    IF i > Len(others) THEN 0 ELSE others[i].count + others_total(others, i + 1)

cumulative_product(f) ==
    pow(2, f.power_two) * pow(3, f.power_three) * others_product(f.other_factors, 1)

discovered_total_factors(f) ==
    f.power_two + f.power_three + others_total(f.other_factors, 1)

discovered_distinct_factors(f) ==
    (IF f.power_two > 0 THEN 1 ELSE 0) + (IF f.power_three > 0 THEN 1 ELSE 0)
        + Len(f.other_factors)

\* assert_internally_consistent, lines 509-518
internally_consistent(f) ==
    /\ \A i \in 1..Len(f.other_factors) : f.other_factors[i].count > 0
    /\ get_product(f) = cumulative_product(f)
    /\ f.distinct_factor_count = discovered_distinct_factors(f)
    /\ f.total_factor_count = discovered_total_factors(f)
    /\ is_prime(f) = (discovered_total_factors(f) = 1)

\* the last operation was partition_factors applied to compute(input), input composite
PartitionedComposite ==
    /\ pc \in {"partitioned", "partition_panic"}
    /\ operandFresh
    /\ IsComposite(input)

----------------------------------------------------------------------------
(* C1: for every composite n, partition_factors(compute(n)) returns a pair   *)
(* whose products multiply to n and are both greater than 1.                  *)
C1_PartitionProduct ==
    PartitionedComposite =>
        /\ pc = "partitioned"
        /\ get_product(halves[1]) * get_product(halves[2]) = input
        /\ get_product(halves[1]) > 1
        /\ get_product(halves[2]) > 1

\* the greedy branch has run on 126 = 2 * 3^2 * 7
C1_Witness ==
    /\ pc = "partitioned" /\ operandFresh /\ input = 126
    /\ get_product(halves[1]) * get_product(halves[2]) = 126

(* C2: for every n >= 1 the product compute(n) stores is n, and so is the     *)
(* product rebuilt from power_two, power_three and other_factors.             *)
C2_ComputeProduct ==
    pc = "computed" =>
        /\ get_product(self) = input
        /\ cumulative_product(self) = input

C2_Witness ==
    /\ pc = "computed" /\ input = 100
    /\ self.power_two = 2 /\ Len(self.other_factors) = 1

(* C3: compute(n) stores the true prime factorization of n: maximal powers of *)
(* 2 and 3, the primes above 3 in strictly ascending order with their full    *)
(* multiplicity, and is_prime exactly when n is a prime number.               *)
C3_TrueFactorization ==
    pc = "computed" =>
        LET others == self.other_factors
        IN /\ self.power_two = Valuation(2, input)
           /\ self.power_three = Valuation(3, input)
           /\ \A i \in 1..Len(others) :
                 /\ others[i].value > 3
                 /\ IsPrimeNumber(others[i].value)
                 /\ others[i].count >= 1
                 /\ others[i].count = Valuation(others[i].value, input)
           /\ \A i \in 1..(Len(others) - 1) : others[i].value < others[i + 1].value
           /\ {others[i].value : i \in 1..Len(others)} = PrimeDivisors(input) \ {2, 3}
           /\ is_prime(self) = IsPrimeNumber(input)

\* 75 = 3 * 5^2: the 5 is stored once with its multiplicity 2
C3_Witness ==
    /\ pc = "computed" /\ input = 75
    /\ self.other_factors = <<[value |-> 5, count |-> 2]>>

\* the factor names 2, 3 or a stored value, with a count up to the stored exponent
ValidFactor(f, fac) ==
    \/ fac.value = 2 /\ fac.count <= f.power_two
    \/ fac.value = 3 /\ fac.count <= f.power_three
    \/ \E i \in 1..Len(f.other_factors) :
          f.other_factors[i].value = fac.value /\ fac.count <= f.other_factors[i].count

\* the last operation was remove_factors applied to compute(input) with a valid factor
RemovedFromComputed ==
    /\ pc \in {"removed", "none", "remove_panic"}
    /\ operandFresh
    /\ ValidFactor(operand, factor)

(* C4: for every n >= 1 and every valid factor, compute(n).remove_factors     *)
(* returns Some with product n / value^count when the quotient exceeds 1, and *)
(* None if and only if the quotient is exactly 1.                             *)
C4_RemoveQuotient ==
    RemovedFromComputed =>
        LET q == input \div pow(factor.value, factor.count)
        IN /\ q > 1 => (pc = "removed" /\ get_product(self) = q)
           /\ (pc = "none") = (q = 1)

(* C5: every Some result of a sequence of valid remove_factors calls is       *)
(* internally consistent.  A call that names an absent value or too large a   *)
(* count with count >= 1 never returns, so every Some reached through calls   *)
(* with count >= 1 was reached through valid calls only.                      *)
C5_RemoveConsistent ==
    (pc = "removed" /\ factor.count >= 1) => internally_consistent(self)

(* C6: for every composite n, no pair of integers with product n is closer    *)
(* together than the pair partition_factors(compute(n)) returns.              *)
C6_ClosestPair ==
    (PartitionedComposite /\ pc = "partitioned") =>
        \A a \in 1..input : input % a = 0 =>
            Abs(a - input \div a)
                >= Abs(get_product(halves[1]) - get_product(halves[2]))

(* C7: for every composite n, both halves of partition_factors(compute(n))    *)
(* are internally consistent.                                                 *)
C7_HalvesConsistent ==
    (PartitionedComposite /\ pc = "partitioned") =>
        /\ internally_consistent(halves[1])
        /\ internally_consistent(halves[2])

\* the single-prime branch has split 5^3 into 5^2 and 5
C7_Witness ==
    /\ pc = "partitioned" /\ operandFresh /\ input = 125
    /\ get_product(halves[1]) = 25 /\ get_product(halves[2]) = 5

(* C8: the cached aggregates of compute(n) agree with its fields.             *)
C8_ComputeAggregates ==
    pc = "computed" =>
        /\ self.total_factor_count = discovered_total_factors(self)
        /\ self.distinct_factor_count = discovered_distinct_factors(self)
        /\ is_prime(self) = (self.total_factor_count = 1)

C8_Witness ==
    /\ pc = "computed" /\ input = 84
    /\ self.total_factor_count = 4 /\ self.distinct_factor_count = 3

\* the powers g^1 .. g^(p-1) mod p
RECURSIVE PowerMod(_, _, _)
PowerMod(g, k, p) == IF k = 0 THEN 1 % p ELSE (PowerMod(g, k - 1, p) * g) % p

IsGenerator(g, p) == {PowerMod(g, k, p) : k \in 1..(p - 1)} = 1..(p - 1)

(* C9: for every prime p, primitive_root(p) is non-empty and is the smallest  *)
(* generator of the multiplicative group modulo p.                            *)
C9_PrimitiveRoot ==
    (prim.op = "primitive_root" /\ IsPrimeNumber(prim.a)) =>
        /\ prim.some
        /\ IsGenerator(prim.val, prim.a)
        /\ \A g \in 1..(prim.val - 1) : ~IsGenerator(g, prim.a)

(* C10: for all a and n >= 1 with gcd(a, n) = 1, multiplicative_inverse(a, n) *)
(* lies in [0, n) and satisfies a * r mod n = 1 mod n.                        *)
C10_Inverse ==
    (prim.op = "multiplicative_inverse" /\ Gcd(prim.a, prim.b) = 1) =>
        /\ 0 <= prim.val /\ prim.val < prim.b
        /\ (prim.a * prim.val) % prim.b = 1 % prim.b

(* C11: for base >= 0, exponent >= 0 and modulo > 0, modular_exponent returns *)
(* the exact residue base^exponent mod modulo, also for exponent = 0 and      *)
(* modulo = 1.                                                                *)
C11_ModularExponent ==
    prim.op = "modular_exponent" => prim.val = PowerMod(prim.a, prim.b, prim.c)

(* C12: the loop of extended_euclidean_algorithm keeps                        *)
(* r_old = a * s_old + b * t_old in every iteration, and the returned         *)
(* (g, s, t) satisfies a * s + b * t = g, for inputs of any sign.             *)
C12_Bezout ==
    /\ pc = "euclid" => ee.r_old = ee.a * ee.s_old + ee.b * ee.t_old
    /\ prim.op = "extended_euclidean_algorithm" =>
          prim.a * prim.list[2] + prim.b * prim.list[3] = prim.list[1]

\* (15, 12) has returned (3, 1, -1) after its iterations
C12_Witness ==
    /\ prim.op = "extended_euclidean_algorithm" /\ prim.a = 15 /\ prim.b = 12
    /\ prim.list = <<3, 1, -1>>

(* C13: the first component returned by extended_euclidean_algorithm(a, b) is *)
(* a greatest common divisor up to sign, |g| = gcd(|a|, |b|), also when a or  *)
(* b is negative.                                                             *)
C13_GcdUpToSign ==
    prim.op = "extended_euclidean_algorithm" =>
        Abs(prim.val) = Gcd(Abs(prim.a), Abs(prim.b))

(* C14: for every n >= 1, distinct_prime_factors(n) lists exactly the primes  *)
(* dividing n, in strictly ascending order and without duplicates.            *)
C14_DistinctPrimes ==
    prim.op = "distinct_prime_factors" =>
        /\ {prim.list[i] : i \in 1..Len(prim.list)} = PrimeDivisors(prim.a)
        /\ \A i \in 1..(Len(prim.list) - 1) : prim.list[i] < prim.list[i + 1]

\* 90 = 2 * 3^2 * 5: multiplicity is dropped
C14_Witness ==
    /\ prim.op = "distinct_prime_factors" /\ prim.a = 90
    /\ prim.list = <<2, 3, 5>>

\* the value is neither 2, nor 3, nor the value of an entry of other_factors
AbsentValue(f, fac) ==
    /\ fac.value # 2 /\ fac.value # 3
    /\ \A i \in 1..Len(f.other_factors) : f.other_factors[i].value # fac.value

\* the count exceeds the exponent stored for the value
ExceedsStored(f, fac) ==
    \/ fac.value = 2 /\ fac.count > f.power_two
    \/ fac.value = 3 /\ fac.count > f.power_three
    \/ \E i \in 1..Len(f.other_factors) :
          f.other_factors[i].value = fac.value /\ fac.count > f.other_factors[i].count

\* the last operation was remove_factors
RemoveCalled == pc \in {"removed", "none", "remove_panic"}

\* C15 as stated: fatal for an absent value with any count, 0 included
C15_FatalOnViolation ==
    (RemoveCalled /\ (ExceedsStored(operand, factor) \/ AbsentValue(operand, factor)))
        => pc = "remove_panic"

(* C15: remove_factors terminates fatally, returning neither Some nor None,   *)
(* whenever factor.count exceeds the exponent stored for factor.value, or     *)
(* factor.count >= 1 and factor.value is neither 2, nor 3, nor the value of   *)
(* an entry of other_factors; with factor.count = 0 it returns Some of the    *)
(* unchanged value whatever factor.value is.                                  *)
C15_FatalOnViolationAmended ==
    RemoveCalled =>
        /\ (ExceedsStored(operand, factor)
              \/ (factor.count >= 1 /\ AbsentValue(operand, factor)))
                 => pc = "remove_panic"
        /\ factor.count = 0 => (pc = "removed" /\ self = operand)

\* 12 = 2^2 * 3 was asked to give up three twos
C15_Witness ==
    /\ pc = "remove_panic" /\ operandFresh /\ input = 12
    /\ factor = [value |-> 2, count |-> 3]

(* C16: for every value reachable from compute(n), n >= 1, by valid           *)
(* remove_factors calls and by taking a half of a partition, if is_prime is   *)
(* false then partition_factors returns normally with halves whose products   *)
(* multiply to the value's product and are both greater than 1.               *)
C16_PartitionReachable ==
    (pc \in {"partitioned", "partition_panic"} /\ ~is_prime(operand)) =>
        /\ pc = "partitioned"
        /\ get_product(halves[1]) * get_product(halves[2]) = get_product(operand)
        /\ get_product(halves[1]) > 1
        /\ get_product(halves[2]) > 1
====
